---- MODULE Spec2Model ----
(***************************************************************************)
(* Model of the listing-cleaning repository:                               *)
(*   - src/src/clean_data.py : geocoder_villes (cached, rate-limited       *)
(*     geocoding of the unique (Ville, Nom_Departement) pairs) and          *)
(*     extraire_surface (prioritised extraction of a floor area);          *)
(*   - src/immo_gps.py       : enrichir_csv_avec_gps (the older enricher,  *)
(*     one lookup per unique Ville).                                       *)
(* Spec runs one of the two geocoding scripts, chosen in Init.             *)
(* SpecSurface applies extraire_surface to one bounded description.        *)
(***************************************************************************)
EXTENDS Integers, Sequences, FiniteSets, TLC

VARIABLES
    script,             \* which program or function runs
    pc,                 \* position in the running function
    GEOPY_AVAILABLE,    \* clean_data.py: result of the conditional import
    df,                 \* the table df of the running function, row by row
    couples_uniques,    \* clean_data.py: df[['Ville','Nom_Departement']].drop_duplicates()
    cache,              \* clean_data.py: dict (ville, nom_dept) -> (lat, lon) or (None, None)
    df_Ville,           \* immo_gps.py: the column df['Ville']
    villes_uniques,     \* immo_gps.py: df['Ville'].unique()
    cache_coordonnees,  \* immo_gps.py: dict ville -> (lat, lon) or None
    i,                  \* number of loop iterations completed
    latitude,           \* the column df['latitude'] once written
    longitude,          \* the column df['longitude'] once written
    output_written,     \* df.to_csv has run: the output file is on disk
    trace,              \* history: the "geocode" and "sleep" events, in order
    requests,           \* history: the key of each external lookup, in order
    responses,          \* history: what each external lookup did, in order
    description,        \* extraire_surface: the text, as a sequence of tokens
    type_bien,          \* extraire_surface: the property-type hint
    surface,            \* extraire_surface: what the call returned
    Localisation,       \* nettoyer_donnees: a value of the column 'Localisation'
    Ville,              \* the city: extraire_ville's result, the query's ville
    Nom_Departement,    \* the division name, likewise
    query,              \* construire_query_geocodage: the string returned
    csv,                \* dashboard.py / app.py: the file that a viewer reads
    random_state,       \* the state of the process's random generator
    previous_df,        \* history: the table that the viewer's last load returned
    jitter,             \* dashboard.py: the locals of a call of stable_jitter
    INPUT_FILE,         \* the input file on disk: whether it exists, its rows
    stdout,             \* history: what is printed of errors and counts, in order
    initial_count,      \* nettoyer_donnees: len(df) when the function is entered
    mask_missing        \* nettoyer_donnees: df['Surface_m2'].isna(), row by row

geoVars == <<script, pc, GEOPY_AVAILABLE, df, couples_uniques, cache, df_Ville,
             villes_uniques, cache_coordonnees, i, latitude, longitude,
             output_written, trace, requests, responses>>
surfVars == <<description, type_bien, surface>>
locVars == <<Localisation, Ville, Nom_Departement, query>>
viewVars == <<csv, random_state, previous_df, jitter>>
nettoyerVars == <<initial_count, mask_missing>>
mainVars == <<INPUT_FILE, stdout, nettoyerVars>>
restVars == <<locVars, viewVars, mainVars>>
vars == <<geoVars, surfVars, restVars>>

\* ---------------------------------------------------------------- bounds
MaxRows == 3        \* rows of the input table of a geocoding run

\* ------------------------------------------------------------ value sets
Villes == {"Tarascon", "Lyon"}
Departements == {"Ariege", "Bouches-du-Rhone"}
\* What the external service may answer for a query: the service is outside
\* the program, so any of these may come back for any query, at any call.
Locations == {<<"43.80", "4.66">>, <<"42.85", "1.60">>}

\* Python's None as a cell of a column or a member of a tuple.
None == "None"
\* Python's None as a whole cache value of immo_gps.py (where the other
\* values are 2-tuples): the value that cannot be subscripted.
NoneObject == <<>>

RowsOf(S) == UNION {[1..n -> S] : n \in 0..MaxRows}

\* ------------------------------------------------------- pure helpers
\* Faulty variant of Unique: the rows are not deduplicated.
NoDeduplication(s) == s
\* pandas drop_duplicates() / unique(): first occurrences, in input order.
RECURSIVE Unique(_)
Unique(s) ==
    IF s = <<>> THEN <<>>
    ELSE LET rest == Unique(SubSeq(s, 1, Len(s) - 1))
             last == s[Len(s)]
         IN  IF \E k \in 1..Len(rest) : rest[k] = last THEN rest
             ELSE Append(rest, last)

\* dict[key] = value
DictSet(d, key, value) ==
    [k \in DOMAIN d \cup {key} |-> IF k = key THEN value ELSE d[k]]

\* dict.get(key, default)
DictGet(d, key, default) == IF key \in DOMAIN d THEN d[key] ELSE default

cache_key(row) == <<row.Ville, row.Nom_Departement>>

EmptyDict == [k \in {} |-> None]

\* ------------------------------------------------------------------ Init
Idle ==
    /\ description = <<>>
    /\ type_bien = <<None>>
    /\ surface = [returned |-> FALSE, found |-> FALSE, val |-> 0, line |-> 0]

\* No location is being parsed and no query built.
IdleLocation ==
    /\ Localisation = <<>>
    /\ Ville = <<>>
    /\ Nom_Departement = <<>>
    /\ query = <<>>

\* No viewer is running.
IdleViewer ==
    /\ csv = <<>>
    /\ random_state = 0
    /\ previous_df = <<>>
    /\ jitter = <<>>

\* No file is looked for and nothing has been printed.
IdleMain ==
    /\ INPUT_FILE = <<>>
    /\ stdout = <<>>
    /\ initial_count = 0
    /\ mask_missing = <<>>

IdleRest == IdleLocation /\ IdleViewer /\ IdleMain

NoRun ==
    /\ couples_uniques = <<>>
    /\ cache = EmptyDict
    /\ villes_uniques = <<>>
    /\ cache_coordonnees = EmptyDict
    /\ i = 0
    /\ latitude = <<>>
    /\ longitude = <<>>
    /\ output_written = FALSE
    /\ trace = <<>>
    /\ requests = <<>>
    /\ responses = <<>>

\* clean_data.py: the table handed to geocoder_villes.
InitClean ==
    /\ script = "clean_data"
    /\ pc = "geocoder_villes"
    /\ GEOPY_AVAILABLE \in BOOLEAN
    /\ df \in RowsOf([Ville : Villes, Nom_Departement : Departements])
    /\ df_Ville = <<>>
    /\ NoRun
    /\ Idle
    /\ IdleRest

\* immo_gps.py: the CSV handed to enrichir_csv_avec_gps is on disk or not;
\* its rows are its 'Ville' column.
InitLegacy ==
    /\ script = "immo_gps"
    /\ pc = "read_csv"
    /\ GEOPY_AVAILABLE = TRUE
    /\ df = <<>>
    /\ INPUT_FILE \in [exists : BOOLEAN, rows : RowsOf(Villes)]
    /\ IF INPUT_FILE.exists THEN TRUE ELSE INPUT_FILE.rows = <<>>
    /\ df_Ville = INPUT_FILE.rows
    /\ stdout = <<>>
    /\ initial_count = 0
    /\ mask_missing = <<>>
    /\ NoRun
    /\ Idle
    /\ IdleLocation
    /\ IdleViewer

Init == InitClean \/ InitLegacy

\* -------------------------------------------------- the external service
\* geolocator.geocode(query, timeout=10) returns a location, returns None
\* or raises (timeout, transport error).
\* (1-tuples, so that they compare with the 2-tuples of Locations)
NotFound == <<"None">>
Raised == <<"Exception">>
Outcomes == Locations \cup {NotFound, Raised}

\* Faulty variant of AfterLookup: the except branch leaves the iteration
\* (a continue), so the sleep is skipped after an exception.
AfterLookupSkipsSleepOnError(outcome) == IF outcome = Raised THEN "for" ELSE "sleep"
\* Where an iteration goes after its try/except, whatever the outcome was:
\* the time.sleep call that ends the loop body.
AfterLookup(outcome) == "sleep"

\* ------------------------------------------ clean_data.py: geocoder_villes
\* if not GEOPY_AVAILABLE: both columns are None, no lookup is made.
GeopyMissing ==
    /\ script = "clean_data"
    /\ pc = "geocoder_villes"
    /\ ~GEOPY_AVAILABLE
    /\ latitude' = [r \in 1..Len(df) |-> None]
    /\ longitude' = [r \in 1..Len(df) |-> None]
    /\ pc' = "return"
    /\ UNCHANGED <<script, GEOPY_AVAILABLE, df, couples_uniques, cache, df_Ville,
                   villes_uniques, cache_coordonnees, i, output_written, trace,
                   requests, responses, surfVars, restVars>>

\* couples_uniques = df[['Ville', 'Nom_Departement']].drop_duplicates(); cache = {}
DropDuplicates ==
    /\ script = "clean_data"
    /\ pc = "geocoder_villes"
    /\ GEOPY_AVAILABLE
    /\ couples_uniques' = Unique([r \in 1..Len(df) |->
                                    [Ville |-> df[r].Ville,
                                     Nom_Departement |-> df[r].Nom_Departement]])
    /\ cache' = EmptyDict
    /\ i' = 0
    /\ pc' = "for"
    /\ UNCHANGED <<script, GEOPY_AVAILABLE, df, df_Ville, villes_uniques,
                   cache_coordonnees, latitude, longitude, output_written, trace,
                   requests, responses, surfVars, restVars>>

\* What one iteration stores in the cache for its key:
\*   if location:  cache[cache_key] = (location.latitude, location.longitude)
StoreFound(c, key, location) == DictSet(c, key, location)
\*   else:         cache[cache_key] = (None, None)
StoreNotFound(c, key) == DictSet(c, key, <<None, None>>)
\* Faulty variants of StoreError: the except branch stores nothing; the
\* except branch starts the cache afresh.
StoreErrorNothing(c, key) == c
StoreErrorClearsCache(c, key) == DictSet(EmptyDict, key, <<None, None>>)
\*   except Exception: cache[cache_key] = (None, None)
StoreError(c, key) == DictSet(c, key, <<None, None>>)

Store(c, key, outcome) ==
    IF outcome \in Locations THEN StoreFound(c, key, outcome)
    ELSE IF outcome = NotFound THEN StoreNotFound(c, key)
    ELSE StoreError(c, key)

\* One iteration of the for loop up to the end of its try/except.
Geocode(outcome) ==
    /\ script = "clean_data"
    /\ pc = "for"
    /\ i < Len(couples_uniques)
    /\ cache' = Store(cache, cache_key(couples_uniques[i + 1]), outcome)
    /\ i' = i + 1
    /\ trace' = Append(trace, "geocode")
    /\ requests' = Append(requests, cache_key(couples_uniques[i + 1]))
    /\ responses' = Append(responses, outcome)
    /\ pc' = AfterLookup(outcome)
    /\ UNCHANGED <<script, GEOPY_AVAILABLE, df, couples_uniques, df_Ville,
                   villes_uniques, cache_coordonnees, latitude, longitude,
                   output_written, surfVars, restVars>>

GeocodeFound ==
    /\ pc = "for"
    /\ \E location \in Locations : Geocode(location)

GeocodeNotFound ==
    /\ pc = "for"
    /\ Geocode(NotFound)

GeocodeError ==
    /\ pc = "for"
    /\ Geocode(Raised)

\* time.sleep(NOMINATIM_DELAY), the last statement of the loop body that acts.
Sleep ==
    /\ script = "clean_data"
    /\ pc = "sleep"
    /\ trace' = Append(trace, "sleep")
    /\ pc' = "for"
    /\ UNCHANGED <<script, GEOPY_AVAILABLE, df, couples_uniques, cache, df_Ville,
                   villes_uniques, cache_coordonnees, i, latitude, longitude,
                   output_written, requests, responses, surfVars, restVars>>

\* get_coords(row) = cache.get((row['Ville'], row['Nom_Departement']), (None, None))
get_coords(c, row) == DictGet(c, cache_key(row), <<None, None>>)

\* Faulty variant of apply_get_coords: the coordinates are joined on the
\* index of the deduplicated table, so only the first row of each pair
\* receives them.
apply_first_occurrences(c, rows) ==
    [r \in 1..Len(rows) |->
        IF \E q \in 1..(r - 1) : rows[q] = rows[r] THEN <<None, None>>
        ELSE get_coords(c, rows[r])]
\* coords = df.apply(get_coords, axis=1): one pair per row of df.
apply_get_coords(c, rows) == [r \in 1..Len(rows) |-> get_coords(c, rows[r])]

\* The end of the loop: the cache is applied to every row of df.
ApplyCoords ==
    /\ script = "clean_data"
    /\ pc = "for"
    /\ i = Len(couples_uniques)
    /\ LET coords == apply_get_coords(cache, df)
       IN  /\ latitude' = [r \in 1..Len(df) |-> coords[r][1]]
           /\ longitude' = [r \in 1..Len(df) |-> coords[r][2]]
    /\ pc' = "return"
    /\ UNCHANGED <<script, GEOPY_AVAILABLE, df, couples_uniques, cache, df_Ville,
                   villes_uniques, cache_coordonnees, i, output_written, trace,
                   requests, responses, surfVars, restVars>>

NextClean ==
    \/ GeopyMissing
    \/ DropDuplicates
    \/ GeocodeFound
    \/ GeocodeNotFound
    \/ GeocodeError
    \/ Sleep
    \/ ApplyCoords

\* ------------------------------------- immo_gps.py: enrichir_csv_avec_gps
\* pd.read_csv raises FileNotFoundError: the message is printed, the
\* function returns.
ReadCsvMissing ==
    /\ script = "immo_gps"
    /\ pc = "read_csv"
    /\ ~INPUT_FILE.exists
    /\ stdout' = Append(stdout, <<"Erreur : Le fichier n'a pas ete trouve.">>)
    /\ pc' = "return"
    /\ UNCHANGED <<script, GEOPY_AVAILABLE, df, couples_uniques, cache, df_Ville,
                   villes_uniques, cache_coordonnees, i, latitude, longitude,
                   output_written, trace, requests, responses, surfVars, locVars,
                   viewVars, INPUT_FILE, nettoyerVars>>

\* df = pd.read_csv(input_file); villes_uniques = df['Ville'].unique();
\* cache_coordonnees = {}
ReadCsv ==
    /\ script = "immo_gps"
    /\ pc = "read_csv"
    /\ INPUT_FILE.exists
    /\ villes_uniques' = Unique(df_Ville)
    /\ cache_coordonnees' = EmptyDict
    /\ i' = 0
    /\ pc' = "for"
    /\ UNCHANGED <<script, GEOPY_AVAILABLE, df, couples_uniques, cache, df_Ville,
                   latitude, longitude, output_written, trace, requests,
                   responses, surfVars, restVars>>

\* What one iteration stores for its ville:
\*   if location: cache_coordonnees[ville] = (location.latitude, location.longitude)
\*   else / except Exception: cache_coordonnees[ville] = None
LegacyStore(c, ville, outcome) ==
    IF outcome \in Locations THEN DictSet(c, ville, outcome)
    ELSE DictSet(c, ville, NoneObject)

\* One iteration of the for loop up to the end of its try/except.
LegacyGeocode(outcome) ==
    /\ script = "immo_gps"
    /\ pc = "for"
    /\ i < Len(villes_uniques)
    /\ cache_coordonnees' = LegacyStore(cache_coordonnees, villes_uniques[i + 1], outcome)
    /\ i' = i + 1
    /\ trace' = Append(trace, "geocode")
    /\ requests' = Append(requests, villes_uniques[i + 1])
    /\ responses' = Append(responses, outcome)
    /\ pc' = AfterLookup(outcome)
    /\ UNCHANGED <<script, GEOPY_AVAILABLE, df, couples_uniques, cache, df_Ville,
                   villes_uniques, latitude, longitude, output_written, surfVars, restVars>>

LegacyGeocodeFound ==
    /\ pc = "for"
    /\ \E location \in Locations : LegacyGeocode(location)

LegacyGeocodeNotFound ==
    /\ pc = "for"
    /\ LegacyGeocode(NotFound)

LegacyGeocodeError ==
    /\ pc = "for"
    /\ LegacyGeocode(Raised)

\* time.sleep(1)
LegacySleep ==
    /\ script = "immo_gps"
    /\ pc = "sleep"
    /\ trace' = Append(trace, "sleep")
    /\ pc' = "for"
    /\ UNCHANGED <<script, GEOPY_AVAILABLE, df, couples_uniques, cache, df_Ville,
                   villes_uniques, cache_coordonnees, i, latitude, longitude,
                   output_written, requests, responses, surfVars, restVars>>

\* df['temp_coords'] = df['Ville'].map(cache_coordonnees)
temp_coords == [r \in 1..Len(df_Ville) |-> cache_coordonnees[df_Ville[r]]]

\* x[0] / x[1] of the lambdas: defined on a tuple, a TypeError on None.
Subscriptable(x) == x # NoneObject

\* df['latitude'] = df['temp_coords'].apply(lambda x: x[0]) raises TypeError
\* on the first None of the column; nothing catches it, the script ends.
MergeTypeError ==
    /\ script = "immo_gps"
    /\ pc = "for"
    /\ i = Len(villes_uniques)
    /\ \E r \in 1..Len(df_Ville) : ~Subscriptable(temp_coords[r])
    /\ pc' = "TypeError"
    /\ UNCHANGED <<script, GEOPY_AVAILABLE, df, couples_uniques, cache, df_Ville,
                   villes_uniques, cache_coordonnees, i, latitude, longitude,
                   output_written, trace, requests, responses, surfVars, restVars>>

\* Both columns are filled, the temporary one dropped, df.to_csv(output_file).
MergeAndSave ==
    /\ script = "immo_gps"
    /\ pc = "for"
    /\ i = Len(villes_uniques)
    /\ \A r \in 1..Len(df_Ville) : Subscriptable(temp_coords[r])
    /\ latitude' = [r \in 1..Len(df_Ville) |-> temp_coords[r][1]]
    /\ longitude' = [r \in 1..Len(df_Ville) |-> temp_coords[r][2]]
    /\ output_written' = TRUE
    /\ pc' = "return"
    /\ UNCHANGED <<script, GEOPY_AVAILABLE, df, couples_uniques, cache, df_Ville,
                   villes_uniques, cache_coordonnees, i, trace, requests,
                   responses, surfVars, restVars>>

NextLegacy ==
    \/ ReadCsvMissing
    \/ ReadCsv
    \/ LegacyGeocodeFound
    \/ LegacyGeocodeNotFound
    \/ LegacyGeocodeError
    \/ LegacySleep
    \/ MergeTypeError
    \/ MergeAndSave

Next == NextClean \/ NextLegacy

Spec == Init /\ [][Next]_vars

\* =================================================================
\* clean_data.py: extraire_surface
\* =================================================================
\* A description is a sequence of tokens, the text being the tokens joined
\* by whitespace.  Every regex of the function allows \s* between its
\* parts, so a regex part matches one token.  The tokens:
\*   a number            \d+(?:[.,]\d+)?   (with a decimal comma or point)
\*   "m2"                m[²2], the area marker in either spelling
\*   "carrez"            (?:carrez|loi carrez)
\*   "habitable"         habitables?
\*   "de"                de / d'une surface de, which ends in "de"
\*   "d'environ"         d'environ, which also contains "environ"
\*   "environ"           environ
\* Matching ignores case (re.IGNORECASE): tokens are written in lower case.
NumTokens == {"8,5", "12", "25"}
Pre == {<<>>, <<"de">>, <<"d'environ">>, <<"environ">>}
Post == {<<>>, <<"m2">>, <<"m2", "carrez">>, <<"m2", "habitable">>}

\* A mention: a number with what may introduce it and what may qualify it.
Mentions == {pre \o <<n>> \o post : pre \in Pre, n \in NumTokens, post \in Post}

MaxMentions == 2    \* mentions in one description

RECURSIVE DescriptionsOf(_)
DescriptionsOf(n) ==
    IF n = 0 THEN {<<>>}
    ELSE LET shorter == DescriptionsOf(n - 1)
         IN  shorter \cup {d \o m : d \in shorter, m \in Mentions}

Descriptions == DescriptionsOf(MaxMentions)

\* The hint: None, or a string given as its characters (a word that holds
\* neither "T" nor a digit is one element).
NoneHint == <<None>>
TypeHints ==
    {NoneHint, <<>>, <<"Appartement", " ", "T", "1">>,
     <<"Appartement", " ", "T", "3">>, <<"Appartement", " ", "T", "1", "0">>}

\* sub in s, for strings as sequences.
Contains(s, sub) ==
    \E k \in 0..(Len(s) - Len(sub)) : SubSeq(s, k + 1, k + Len(sub)) = sub

\* Lines 81-86: the minimum plausible surface for the kind of property.
SeuilStudio == 12
SeuilDefaut == 25
seuil_min(t) ==
    IF /\ t # NoneHint
       /\ t # <<>>
       /\ (Contains(t, <<"T", "0">>) \/ Contains(t, <<"T", "1">>))
    THEN SeuilStudio
    ELSE SeuilDefaut

\* float(m.replace(',', '.')): values are kept in tenths of a square metre.
replace_comma(tok) ==
    CASE tok = "8,5" -> "8.5"
      [] OTHER -> tok
float(str) ==
    CASE str = "8.5" -> 85
      [] str = "8" -> 80
      [] str = "12" -> 120
      [] str = "25" -> 250
\* The (\d+) of the last pattern: the digits up to the decimal separator.
leading_digits(tok) ==
    CASE tok = "8,5" -> "8"
      [] OTHER -> tok
AtLeast(val, seuil) == val >= seuil * 10

\* The token at position k, "" past either end of the text.
At(d, k) == IF k \in 1..Len(d) THEN d[k] ELSE ""

\* (\d+(?:[.,]\d+)?)\s*m[²2] matches at k: group(1) is the token at k.
MatchSurface(d, k) == At(d, k) \in NumTokens /\ At(d, k + 1) = "m2"
\* ...\s*(?:carrez|loi carrez)
MatchCarrez(d, k) == MatchSurface(d, k) /\ At(d, k + 2) = "carrez"
\* ...\s*habitables?
MatchHabitable(d, k) == MatchSurface(d, k) /\ At(d, k + 2) = "habitable"
\* (?:de|d'environ|d'une surface de)\s*(\d+...)\s*m[²2]: group(1) at k + 1.
MatchFormulation(d, k) == At(d, k) \in {"de", "d'environ"} /\ MatchSurface(d, k + 1)

\* environ\s*(\d+): group(1) is the leading digits of the token at k + 1.
MatchEnviron(d, k) == At(d, k) \in {"environ", "d'environ"} /\ At(d, k + 1) \in NumTokens

\* re.search: the leftmost position where the pattern matches, 0 for None.
LeftMost(S) == IF S = {} THEN 0 ELSE CHOOSE k \in S : \A j \in S : k <= j
search_carrez(d) == LeftMost({k \in 1..Len(d) : MatchCarrez(d, k)})
search_habitable(d) == LeftMost({k \in 1..Len(d) : MatchHabitable(d, k)})
search_formulation(d) == LeftMost({k \in 1..Len(d) : MatchFormulation(d, k)})
search_environ(d) == LeftMost({k \in 1..Len(d) : MatchEnviron(d, k)})

\* re.findall(pattern, desc) and the float of each match, in text order.
RECURSIVE findall_values(_, _)
findall_values(d, k) ==
    IF k > Len(d) THEN <<>>
    ELSE IF MatchSurface(d, k)
         THEN <<float(replace_comma(d[k]))>> \o findall_values(d, k + 2)
         ELSE findall_values(d, k + 1)

RECURSIVE max(_)
max(values) ==
    IF Len(values) = 1 THEN values[1]
    ELSE LET m == max(Tail(values))
         IN  IF values[1] >= m THEN values[1] ELSE m

\* [v for v in values if v >= seuil_min]
RECURSIVE valid_values(_, _)
valid_values(values, seuil) ==
    IF values = <<>> THEN <<>>
    ELSE IF AtLeast(values[1], seuil)
         THEN <<values[1]>> \o valid_values(Tail(values), seuil)
         ELSE valid_values(Tail(values), seuil)

\* What a step of the function does: return a value at a line, or go on.
Return(line, val) == [returned |-> TRUE, found |-> TRUE, val |-> val, line |-> line]
ReturnNone(line) == [returned |-> TRUE, found |-> FALSE, val |-> 0, line |-> line]
GoOn == [returned |-> FALSE, found |-> FALSE, val |-> 0, line |-> 0]

\* Faulty variant of priorite_carrez: the value must reach the threshold.
priorite_carrez_with_threshold(d, seuil) ==
    LET k == search_carrez(d)
    IN  IF k # 0 /\ AtLeast(float(replace_comma(d[k])), seuil)
        THEN Return(91, float(replace_comma(d[k])))
        ELSE GoOn
\* Priority 1, lines 88-91.
priorite_carrez(d, seuil) ==
    LET k == search_carrez(d)
    IN  IF k # 0 THEN Return(91, float(replace_comma(d[k]))) ELSE GoOn

\* Faulty variant of priorite_habitable: the value must reach the threshold.
priorite_habitable_with_threshold(d, seuil) ==
    LET k == search_habitable(d)
    IN  IF k # 0 /\ AtLeast(float(replace_comma(d[k])), seuil)
        THEN Return(96, float(replace_comma(d[k])))
        ELSE GoOn
\* Priority 2, lines 93-96.
priorite_habitable(d, seuil) ==
    LET k == search_habitable(d)
    IN  IF k # 0 THEN Return(96, float(replace_comma(d[k]))) ELSE GoOn

\* Faulty variant of priorite_formulation: the threshold is not applied.
priorite_formulation_unconditional(d, seuil) ==
    LET k == search_formulation(d)
    IN  IF k # 0 THEN Return(107, float(replace_comma(d[k + 1]))) ELSE GoOn
\* Priority 3, lines 98-107.
priorite_formulation(d, seuil) ==
    LET k == search_formulation(d)
    IN  IF k # 0 /\ AtLeast(float(replace_comma(d[k + 1])), seuil)
        THEN Return(107, float(replace_comma(d[k + 1])))
        ELSE GoOn

\* Faulty variant of priorite_max: when every value is under the threshold
\* the function goes on to the next priority.
priorite_max_only_valid(d, seuil) ==
    LET values == findall_values(d, 1)
        valid == valid_values(values, seuil)
    IN  IF valid # <<>> THEN Return(116, max(valid)) ELSE GoOn
\* Faulty variant of priorite_max: the first value that reaches the
\* threshold is returned instead of the largest.
priorite_max_first_valid(d, seuil) ==
    LET values == findall_values(d, 1)
        valid == valid_values(values, seuil)
    IN  IF values = <<>> THEN GoOn
        ELSE IF valid # <<>> THEN Return(116, valid[1])
        ELSE Return(118, max(values))
\* Priority 4, lines 109-118.
priorite_max(d, seuil) ==
    LET values == findall_values(d, 1)
        valid == valid_values(values, seuil)
    IN  IF values = <<>> THEN GoOn
        ELSE IF valid # <<>> THEN Return(116, max(valid))
        ELSE Return(118, max(values))

\* Faulty variant of priorite_environ: the threshold is not applied.
priorite_environ_unconditional(d, seuil) ==
    LET k == search_environ(d)
    IN  IF k # 0 THEN Return(125, float(leading_digits(d[k + 1]))) ELSE GoOn
\* Priority 5, lines 120-125.
priorite_environ(d, seuil) ==
    LET k == search_environ(d)
    IN  IF k # 0 /\ AtLeast(float(leading_digits(d[k + 1])), seuil)
        THEN Return(125, float(leading_digits(d[k + 1])))
        ELSE GoOn

extraire_surface(d, t) ==
    LET seuil == seuil_min(t)
        p1 == priorite_carrez(d, seuil)
        p2 == priorite_habitable(d, seuil)
        p3 == priorite_formulation(d, seuil)
        p4 == priorite_max(d, seuil)
        p5 == priorite_environ(d, seuil)
    IN  IF p1.returned THEN p1
        ELSE IF p2.returned THEN p2
        ELSE IF p3.returned THEN p3
        ELSE IF p4.returned THEN p4
        ELSE IF p5.returned THEN p5
        ELSE ReturnNone(127)

\* One call of extraire_surface(description, type_bien).
InitSurface ==
    /\ script = "extraire_surface"
    /\ pc = "call"
    /\ GEOPY_AVAILABLE = TRUE
    /\ df = <<>>
    /\ df_Ville = <<>>
    /\ NoRun
    /\ description \in Descriptions
    /\ type_bien \in TypeHints
    /\ surface = GoOn
    /\ IdleRest

ExtraireSurface ==
    /\ script = "extraire_surface"
    /\ pc = "call"
    /\ surface' = extraire_surface(description, type_bien)
    /\ pc' = "return"
    /\ UNCHANGED <<script, GEOPY_AVAILABLE, df, couples_uniques, cache, df_Ville,
                   villes_uniques, cache_coordonnees, i, latitude, longitude,
                   output_written, trace, requests, responses, description,
                   type_bien, restVars>>

NextSurface == ExtraireSurface

SpecSurface == InitSurface /\ [][NextSurface]_vars

\* =================================================================
\* clean_data.py: extraire_ville, extraire_nom_departement
\* =================================================================
\* A string is the sequence of its atoms, the text being the atoms written
\* one after the other: " ", "-", "(", ")" and each digit are atoms of one
\* character, every other atom is a run of letters.
Digits == {"0", "1", "2", "3", "4", "5", "6", "7", "8", "9"}

\* float('nan'), what pandas reads for an empty or "N/A" cell.
nan == <<"float('nan')">>
\* str(x)
to_str(x) == IF x = nan THEN <<"nan">> ELSE x

\* str.lstrip(chars) and str.rstrip(chars)
RECURSIVE lstrip(_, _)
lstrip(s, chars) ==
    IF s # <<>> /\ Head(s) \in chars THEN lstrip(Tail(s), chars) ELSE s
RECURSIVE rstrip(_, _)
rstrip(s, chars) ==
    IF s # <<>> /\ s[Len(s)] \in chars
    THEN rstrip(SubSeq(s, 1, Len(s) - 1), chars)
    ELSE s
\* str.strip()
strip(s) == rstrip(lstrip(s, {" "}), {" "})

\* str.find(sub) + 1: where sub first starts in s, 0 if it does not occur.
find(s, sub) ==
    LeftMost({k \in 1..(Len(s) - Len(sub) + 1) : SubSeq(s, k, k + Len(sub) - 1) = sub})

\* str.split(sep): the parts between the occurrences of sep, left to right.
RECURSIVE split(_, _)
split(s, sep) ==
    LET k == find(s, sep)
    IN  IF k = 0 THEN <<s>>
        ELSE <<SubSeq(s, 1, k - 1)>> \o split(SubSeq(s, k + Len(sep), Len(s)), sep)

\* ' - '
Separator == <<" ", "-", " ">>

\* Lines 144 and 165: texte = str(localisation).lstrip('- ').strip()
texte_of(localisation) == strip(lstrip(to_str(localisation), {"-", " "}))

\* Lines 130-149.
extraire_ville(localisation) ==
    LET texte == texte_of(localisation)
    IN  IF Contains(texte, Separator)
        THEN strip(split(texte, Separator)[1])
        ELSE texte

\* Faulty variant of extraire_nom_departement: the code in parentheses stays.
extraire_nom_departement_with_code(localisation) ==
    LET texte == texte_of(localisation)
    IN  IF Contains(texte, Separator)
        THEN strip(split(texte, Separator)[2])
        ELSE <<>>
\* Lines 152-174.
extraire_nom_departement(localisation) ==
    LET texte == texte_of(localisation)
    IN  IF Contains(texte, Separator)
        THEN LET partie_dept == strip(split(texte, Separator)[2])
             IN  IF Contains(partie_dept, <<"(">>)
                 THEN strip(split(partie_dept, <<"(">>)[1])
                 ELSE partie_dept
        ELSE <<>>

\* The raw values of the column: an optional leading dash, then up to
\* MaxSegments segments joined by ' - '.
LeadingParts == {<<>>, <<"-", " ">>, <<" ", "-", " ", " ">>}
Segments ==
    {<<>>, <<"Tarascon">>, <<"Paris", " ", "8">>, <<"Saint", "-", "Denis", " ">>,
     <<"La", " ", "Reunion">>, <<"(", "7", "5", ")">>,
     <<"Bouches", "-", "du", "-", "Rhone", " ", "(", "1", "3", ")">>}

MaxSegments == 3    \* segments in one raw location

RECURSIVE Joined(_)
Joined(n) ==
    IF n = 1 THEN Segments
    ELSE LET shorter == Joined(n - 1)
         IN  shorter \cup {s \o Separator \o g : s \in shorter, g \in Segments}

RawLocations == {p \o s : p \in LeadingParts, s \in Joined(MaxSegments)} \cup {nan}

\* Lines 214 and 218 of nettoyer_donnees for one value of the column.
InitLocation ==
    /\ script = "localisation"
    /\ pc = "extraire_ville"
    /\ GEOPY_AVAILABLE = TRUE
    /\ df = <<>>
    /\ df_Ville = <<>>
    /\ NoRun
    /\ Idle
    /\ IdleViewer
    /\ IdleMain
    /\ Localisation \in RawLocations
    /\ Ville = <<>>
    /\ Nom_Departement = <<>>
    /\ query = <<>>

\* df['Ville'] = df['Localisation'].apply(extraire_ville)
ExtraireVille ==
    /\ script = "localisation"
    /\ pc = "extraire_ville"
    /\ Ville' = extraire_ville(Localisation)
    /\ pc' = "extraire_nom_departement"
    /\ UNCHANGED <<script, GEOPY_AVAILABLE, df, couples_uniques, cache, df_Ville,
                   villes_uniques, cache_coordonnees, i, latitude, longitude,
                   output_written, trace, requests, responses, surfVars, viewVars,
                   mainVars, Localisation, Nom_Departement, query>>

\* df['Nom_Departement'] = df['Localisation'].apply(extraire_nom_departement)
ExtraireNomDepartement ==
    /\ script = "localisation"
    /\ pc = "extraire_nom_departement"
    /\ Nom_Departement' = extraire_nom_departement(Localisation)
    /\ pc' = "return"
    /\ UNCHANGED <<script, GEOPY_AVAILABLE, df, couples_uniques, cache, df_Ville,
                   villes_uniques, cache_coordonnees, i, latitude, longitude,
                   output_written, trace, requests, responses, surfVars, viewVars,
                   mainVars, Localisation, Ville, query>>

NextLocation == ExtraireVille \/ ExtraireNomDepartement

SpecLocation == InitLocation /\ [][NextLocation]_vars

\* =================================================================
\* clean_data.py: construire_query_geocodage
\* =================================================================
\* str.lower(), atom by atom (digits and punctuation have no case).
lower_atom(a) ==
    CASE a \in {"Paris", "PARIS"} -> "paris"
      [] a = "Lyon" -> "lyon"
      [] a = "Marseille" -> "marseille"
      [] a = "Tarascon" -> "tarascon"
      [] a = "Ville" -> "ville"
      [] OTHER -> a
lower(s) == [k \in DOMAIN s |-> lower_atom(s[k])]

\* int(digits) and str(n) for n >= 0
DigitValue(c) ==
    CASE c = "0" -> 0 [] c = "1" -> 1 [] c = "2" -> 2 [] c = "3" -> 3 [] c = "4" -> 4
      [] c = "5" -> 5 [] c = "6" -> 6 [] c = "7" -> 7 [] c = "8" -> 8 [] c = "9" -> 9
RECURSIVE int(_)
int(s) ==
    IF Len(s) = 1 THEN DigitValue(s[1])
    ELSE 10 * int(SubSeq(s, 1, Len(s) - 1)) + DigitValue(s[Len(s)])
RECURSIVE str_int(_)
str_int(n) ==
    LET last == <<CHOOSE c \in Digits : DigitValue(c) = n % 10>>
    IN  IF n < 10 THEN last ELSE str_int(n \div 10) \o last

\* Line 260: base_cp
base_cp(nom_ville) ==
    CASE nom_ville = "paris" -> 75000
      [] nom_ville = "lyon" -> 69000
      [] nom_ville = "marseille" -> 13000

\* The first position from k on whose atom is not in chars.
SkipAll(s, k, chars) ==
    LeftMost({j \in k..(Len(s) + 1) : j = Len(s) + 1 \/ s[j] \notin chars})

\* (paris|lyon|marseille)\s*0*(\d+) matches at k: a name, then whitespace,
\* then at least one digit.
MatchArrondissement(s, k) ==
    /\ s[k] \in {"paris", "lyon", "marseille"}
    /\ LET d == SkipAll(s, k + 1, {" "})
       IN  SkipAll(s, d, Digits) > d
\* group(2) of the match at k: the digits left by the greedy 0*, which gives
\* back one zero when there is no other digit.
group_2(s, k) ==
    LET d == SkipAll(s, k + 1, {" "})
        end == SkipAll(s, d, Digits)
        z == SkipAll(s, d, {"0"})
    IN  IF z < end THEN SubSeq(s, z, end - 1) ELSE SubSeq(s, end - 1, end - 1)

\* Lines 235-274; the query is a string: ", " is the atoms "," and " ".
construire_query_geocodage(ville, nom_departement) ==
    LET s == strip(lower(to_str(ville)))
        k == LeftMost({j \in 1..Len(s) : MatchArrondissement(s, j)})
    IN  IF k # 0
        THEN str_int(base_cp(s[k]) + int(group_2(s, k))) \o <<",", " ", "France">>
        ELSE IF nom_departement # <<>>
             THEN ville \o <<",", " ">> \o nom_departement \o <<",", " ", "France">>
             ELSE ville \o <<",", " ", "France">>

\* The cities and division names the function is called with.
QueryVilles ==
    {lead \o name \o gap \o number :
        lead \in {<<>>, <<"Ville">>},
        name \in {<<"Paris">>, <<"PARIS">>, <<"Lyon">>, <<"Marseille">>, <<"Tarascon">>},
        gap \in {<<>>, <<" ">>},
        number \in {<<>>, <<"8">>, <<"0", "8">>, <<"1", "3">>, <<"0">>}}
QueryDepartements == {<<>>, <<"Rhone">>, <<"Paris">>}

InitQuery ==
    /\ script = "construire_query_geocodage"
    /\ pc = "call"
    /\ GEOPY_AVAILABLE = TRUE
    /\ df = <<>>
    /\ df_Ville = <<>>
    /\ NoRun
    /\ Idle
    /\ IdleViewer
    /\ IdleMain
    /\ Localisation = <<>>
    /\ Ville \in QueryVilles
    /\ Nom_Departement \in QueryDepartements
    /\ query = <<>>

ConstruireQuery ==
    /\ script = "construire_query_geocodage"
    /\ pc = "call"
    /\ query' = construire_query_geocodage(Ville, Nom_Departement)
    /\ pc' = "return"
    /\ UNCHANGED <<script, GEOPY_AVAILABLE, df, couples_uniques, cache, df_Ville,
                   villes_uniques, cache_coordonnees, i, latitude, longitude,
                   output_written, trace, requests, responses, surfVars, viewVars,
                   mainVars, Localisation, Ville, Nom_Departement>>

NextQuery == ConstruireQuery

SpecQuery == InitQuery /\ [][NextQuery]_vars

\* =================================================================
\* clean_data.py: nettoyer_donnees
\* =================================================================
\* A cell of a numeric column: a number or NaN.  Surfaces are in tenths of
\* a square metre, as the values of extraire_surface, prices in euros.
Num(n) == [isna |-> FALSE, v |-> n]
NaN == [isna |-> TRUE, v |-> 0]

\* Faulty variant of dropna: the subset is left out, a row goes when any
\* of its numeric cells is missing.
dropna_any_column(t, cols) ==
    SelectSeq(t, LAMBDA row : ~row.Prix.isna /\ ~row.Surface_m2.isna)
\* df.dropna(subset=cols): the rows keep their index.
dropna(t, cols) == SelectSeq(t, LAMBDA row : \A c \in cols : ~row[c].isna)

\* (df['Prix'] / df['Surface_m2']).round(decimals), in units of
\* 10^-decimals euro; NaN if either cell is.  No value of the model falls
\* halfway between two roundings.
prix_par_m2(row, unit) ==
    IF row.Prix.isna \/ row.Surface_m2.isna THEN NaN
    ELSE LET num == row.Prix.v * 10 * unit
             den == row.Surface_m2.v
         IN  Num((2 * num + den) \div (2 * den))

\* The rows of the raw table.
RawListings ==
    [Prix : {NaN, Num(100000)},
     Surface_m2 : {NaN, Num(100), Num(500), Num(20000)},
     Description : {<<>>, <<"environ", "12">>, <<"25", "m2">>},
     Type_Bien : {NoneHint, <<"Appartement", " ", "T", "1">>},
     Localisation : {<<"-", " ", "Paris", " ", "8", " ", "-", " ", "Paris", " ",
                       "(", "7", "5", ")">>}]

MaxListings == 2    \* rows of the raw table

RawTables == UNION {[1..n -> RawListings] : n \in 0..MaxListings}

\* pd.read_csv: the rows get the index 0, 1, ...
read_csv(rows) == [k \in 1..Len(rows) |-> DictSet(rows[k], "index", k - 1)]

\* nettoyer_donnees is called on the table read from a file.
InitNettoyer ==
    /\ script = "nettoyer_donnees"
    /\ pc = "extraction"
    /\ GEOPY_AVAILABLE = TRUE
    /\ \E t \in RawTables :
          /\ INPUT_FILE = [exists |-> TRUE, rows |-> t]
          /\ df = read_csv(t)
    /\ df_Ville = <<>>
    /\ NoRun
    /\ Idle
    /\ IdleLocation
    /\ IdleViewer
    /\ stdout = <<>>
    /\ initial_count = 0
    /\ mask_missing = <<>>

\* The cell that extraire_surface gives a row: its value, NaN for None.
surface_extraite(row) ==
    LET r == extraire_surface(row.Description, row.Type_Bien)
    IN  IF r.found THEN Num(r.val) ELSE NaN

\* Faulty variant of extraction_surfaces: the mask is left out, every row
\* gets what extraire_surface finds in its description.
extraction_sans_masque(t, mask) ==
    [k \in 1..Len(t) |-> DictSet(t[k], "Surface_m2", surface_extraite(t[k]))]
\* Lines 195-198: df.loc[mask_missing, 'Surface_m2'] =
\* df.loc[mask_missing].apply(...): the function is applied to the rows of
\* the mask, and its results are written to those rows.
extraction_surfaces(t, mask) ==
    [k \in 1..Len(t) |->
        IF mask[k] THEN DictSet(t[k], "Surface_m2", surface_extraite(t[k]))
        ELSE t[k]]

\* Lines 188-203: initial_count = len(df), mask_missing =
\* df['Surface_m2'].isna(), then the missing surfaces are taken from the
\* descriptions.
ExtractionSurfaces ==
    /\ script \in {"nettoyer_donnees", "clean_data"}
    /\ pc = "extraction"
    /\ initial_count' = Len(df)
    /\ mask_missing' = [k \in 1..Len(df) |-> df[k].Surface_m2.isna]
    /\ df' = extraction_surfaces(df, mask_missing')
    /\ pc' = "dropna"
    /\ UNCHANGED <<script, GEOPY_AVAILABLE, couples_uniques, cache, df_Ville,
                   villes_uniques, cache_coordonnees, i, latitude, longitude,
                   output_written, trace, requests, responses, surfVars, locVars,
                   viewVars, INPUT_FILE, stdout>>

\* Line 207: still_missing = df['Surface_m2'].isna().sum()
still_missing(t) == Cardinality({k \in 1..Len(t) : t[k].Surface_m2.isna})

\* Lines 207-210: df = df.dropna(subset=['Surface_m2']), and the two counts
\* are printed.
SuppressionSansSurface ==
    /\ script \in {"nettoyer_donnees", "clean_data"}
    /\ pc = "dropna"
    /\ df' = dropna(df, {"Surface_m2"})
    /\ stdout' = stdout \o << <<"Lignes supprimees", still_missing(df)>>,
                              <<"Lignes restantes", Len(df')>> >>
    /\ pc' = "colonnes"
    /\ UNCHANGED <<script, GEOPY_AVAILABLE, couples_uniques, cache, df_Ville,
                   villes_uniques, cache_coordonnees, i, latitude, longitude,
                   output_written, trace, requests, responses, surfVars, locVars,
                   viewVars, INPUT_FILE, nettoyerVars>>

\* Lines 214-218: the columns Ville and Nom_Departement.
ColonnesVille ==
    /\ script \in {"nettoyer_donnees", "clean_data"}
    /\ pc = "colonnes"
    /\ df' = [k \in 1..Len(df) |->
                DictSet(DictSet(df[k], "Ville", extraire_ville(df[k].Localisation)),
                        "Nom_Departement", extraire_nom_departement(df[k].Localisation))]
    /\ pc' = "prix_m2"
    /\ UNCHANGED <<script, GEOPY_AVAILABLE, couples_uniques, cache, df_Ville,
                   villes_uniques, cache_coordonnees, i, latitude, longitude,
                   output_written, trace, requests, responses, surfVars, restVars>>

\* Line 222: df['prix_m2'] = (df['Prix'] / df['Surface_m2']).round(2), in
\* cents; line 226 prints initial_count and len(df); then the function
\* returns df, to main (which goes on with geocoder_villes) when main
\* called it.
CalculPrixM2 ==
    /\ script \in {"nettoyer_donnees", "clean_data"}
    /\ pc = "prix_m2"
    /\ df' = [k \in 1..Len(df) |-> DictSet(df[k], "prix_m2", prix_par_m2(df[k], 100))]
    /\ stdout' = Append(stdout, <<"Nettoyage termine", initial_count, Len(df)>>)
    /\ pc' = IF script = "clean_data" THEN "geocoder_villes" ELSE "return"
    /\ UNCHANGED <<script, GEOPY_AVAILABLE, couples_uniques, cache, df_Ville,
                   villes_uniques, cache_coordonnees, i, latitude, longitude,
                   output_written, trace, requests, responses, surfVars, locVars,
                   viewVars, INPUT_FILE, nettoyerVars>>

NextNettoyer ==
    \/ ExtractionSurfaces
    \/ SuppressionSansSurface
    \/ ColonnesVille
    \/ CalculPrixM2

SpecNettoyer == InitNettoyer /\ [][NextNettoyer]_vars

\* =================================================================
\* clean_data.py: main
\* =================================================================
\* The script is started: data/annonces_raw.csv is on disk or not.  The
\* listings of the file have a price and no property type.
InitMain ==
    /\ script = "clean_data"
    /\ pc = "main"
    /\ GEOPY_AVAILABLE \in BOOLEAN
    /\ df = <<>>
    /\ df_Ville = <<>>
    /\ NoRun
    /\ Idle
    /\ IdleLocation
    /\ IdleViewer
    /\ \E e \in BOOLEAN, t \in RawTables :
          /\ IF e THEN TRUE ELSE t = <<>>
          /\ \A k \in 1..Len(t) : t[k].Prix = Num(100000) /\ t[k].Type_Bien = NoneHint
          /\ INPUT_FILE = [exists |-> e, rows |-> t]
    /\ stdout = <<>>
    /\ initial_count = 0
    /\ mask_missing = <<>>

\* Faulty variant of FichierNonTrouve: the output directory and an empty
\* output file are made before the input is looked for.
FichierNonTrouveApresEcriture ==
    /\ script = "clean_data"
    /\ pc = "main"
    /\ ~INPUT_FILE.exists
    /\ output_written' = TRUE
    /\ stdout' = Append(stdout, <<"Erreur : Fichier non trouve">>)
    /\ pc' = "exit"
    /\ UNCHANGED <<script, GEOPY_AVAILABLE, df, couples_uniques, cache, df_Ville,
                   villes_uniques, cache_coordonnees, i, latitude, longitude,
                   trace, requests, responses, surfVars, locVars,
                   viewVars, INPUT_FILE, nettoyerVars>>
\* Lines 365-368: if not INPUT_FILE.exists(): the error is printed, main
\* returns.
FichierNonTrouve ==
    /\ script = "clean_data"
    /\ pc = "main"
    /\ ~INPUT_FILE.exists
    /\ stdout' = Append(stdout, <<"Erreur : Fichier non trouve">>)
    /\ pc' = "exit"
    /\ UNCHANGED <<script, GEOPY_AVAILABLE, df, couples_uniques, cache, df_Ville,
                   villes_uniques, cache_coordonnees, i, latitude, longitude,
                   output_written, trace, requests, responses, surfVars, locVars,
                   viewVars, INPUT_FILE, nettoyerVars>>

\* Lines 365 and 372: the file exists, df = pd.read_csv(INPUT_FILE); main
\* then calls nettoyer_donnees(df).
Chargement ==
    /\ script = "clean_data"
    /\ pc = "main"
    /\ INPUT_FILE.exists
    /\ df' = read_csv(INPUT_FILE.rows)
    /\ pc' = "extraction"
    /\ UNCHANGED <<script, GEOPY_AVAILABLE, couples_uniques, cache, df_Ville,
                   villes_uniques, cache_coordonnees, i, latitude, longitude,
                   output_written, trace, requests, responses, surfVars, restVars>>

\* Lines 383-384, once geocoder_villes has returned: the output directory
\* is made and df.to_csv(OUTPUT_FILE) writes the file.
Sauvegarde ==
    /\ script = "clean_data"
    /\ pc = "return"
    /\ output_written' = TRUE
    /\ pc' = "exit"
    /\ UNCHANGED <<script, GEOPY_AVAILABLE, df, couples_uniques, cache, df_Ville,
                   villes_uniques, cache_coordonnees, i, latitude, longitude,
                   trace, requests, responses, surfVars, restVars>>

\* Both scripts that read an input file, from their start to their end.
NextMain ==
    \/ FichierNonTrouve
    \/ Chargement
    \/ NextNettoyer
    \/ NextClean
    \/ Sauvegarde
    \/ NextLegacy

SpecMain == (InitMain \/ InitLegacy) /\ [][NextMain]_vars

\* =================================================================
\* dashboard.py and app.py: load_and_prepare_data
\* =================================================================
\* A cell that holds text where a number is expected.
PrixSurDemande == [isna |-> FALSE, v |-> 0, text |-> <<"Prix sur demande">>]
\* pd.to_numeric(errors="coerce")
to_numeric(cell) == IF "text" \in DOMAIN cell THEN NaN ELSE cell

\* The column Departement as a viewer gets it: read_csv reads a column of
\* digits as int64 (the 06 of the file is 6), astype(str) gives the decimal
\* digits of the number.
astype_str(cell) == str_int(int(cell))

\* Faulty variant of zfill: nothing is added.
zfill_unpadded(s, width) == s
\* str.zfill(width)
RECURSIVE zfill(_, _)
zfill(s, width) == IF Len(s) >= width THEN s ELSE zfill(<<"0">> \o s, width)

\* The listings of the file: identity and department (the text of the
\* cell: to_csv writes the codes 06 and 13 of scraper.py, once read as
\* int64, as 6 and 13), coordinates in millionths of a degree (NaN for a
\* city that was not geocoded).
U1 == <<"https://www.immobilier.notaires.fr/fr/annonce-immo/1">>
U2 == <<"https://www.immobilier.notaires.fr/fr/annonce-immo/2">>
CsvRows ==
    {[Prix |-> p, Surface_m2 |-> s, latitude |-> c[1], longitude |-> c[2],
      URL |-> l[1], Departement |-> l[2]] :
        p \in {Num(300000), PrixSurDemande},
        s \in {NaN, Num(149), Num(150), Num(10000), Num(10001)},
        c \in {<<NaN, NaN>>, <<Num(43804000), Num(4650000)>>},
        l \in {<<U1, <<"6">>>>, <<U2, <<"1", "3">>>>}}

MaxCsvRows == 2    \* rows of the file that a viewer reads

CsvFiles ==
    [URL_column : BOOLEAN, rows : UNION {[1..n -> CsvRows] : n \in 0..MaxCsvRows}]

\* hashlib.md5(s.encode("utf-8")).hexdigest()[:8] for the keys of the model.
md5_hexdigest_8(s) ==
    CASE s = U1 -> <<"d", "8", "1", "a", "d", "3", "7", "6">>
      [] s = U2 -> <<"8", "2", "1", "7", "e", "5", "4", "2">>
      [] s = U1 \o <<"_x">> -> <<"9", "f", "b", "9", "6", "4", "d", "a">>
      [] s = U2 \o <<"_x">> -> <<"c", "f", "e", "4", "e", "d", "4", "7">>
      [] s = <<"0">> -> <<"c", "f", "c", "d", "2", "0", "8", "4">>
      [] s = <<"1">> -> <<"c", "4", "c", "a", "4", "2", "3", "8">>
      [] s = <<"2">> -> <<"c", "8", "1", "e", "7", "2", "8", "d">>
      [] s = <<"0", "_x">> -> <<"4", "8", "e", "d", "4", "b", "1", "c">>
      [] s = <<"1", "_x">> -> <<"a", "9", "7", "1", "3", "a", "1", "b">>
      [] s = <<"2", "_x">> -> <<"5", "c", "d", "3", "0", "b", "8", "6">>

\* int(h, 16) of eight hexadecimal digits, as <<high, low>>: the number is
\* high * 65536 + low (it does not fit TLC's integers).
HexValue(c) ==
    CASE c \in Digits -> DigitValue(c)
      [] c = "a" -> 10 [] c = "b" -> 11 [] c = "c" -> 12
      [] c = "d" -> 13 [] c = "e" -> 14 [] c = "f" -> 15
int_16(h) ==
    LET half(a) == HexValue(h[a]) * 4096 + HexValue(h[a + 1]) * 256
                       + HexValue(h[a + 2]) * 16 + HexValue(h[a + 3])
    IN  <<half(1), half(5)>>

\* 0xFFFFFFFF as <<high, low>>.
xFFFFFFFF == <<65535, 65535>>

\* dashboard.py line 56: r = int(h[:8], 16) / 0xFFFFFFFF, kept exact as the
\* numerator int(h[:8], 16) over the denominator 0xFFFFFFFF.
ratio(h) == [num |-> int_16(h), den |-> xFFFFFFFF]

\* dashboard.py line 57: val + (r - 0.5) * 2 * scale, that is
\* val + scale * (2 * r.num - r.den) / r.den, kept exact: num is
\* 2 * r.num - r.den as <<high, low>> (high * 65536 + low, with
\* 0 <= low < 65536), the offset being scale * num / 0xFFFFFFFF.
jittered(val, r, scale) ==
    LET high == 2 * r.num[1] - r.den[1]
        low == 2 * r.num[2] - r.den[2]
    IN  [val |-> val, scale |-> scale,
         num |-> <<high + (low \div 65536), low % 65536>>]

\* Faulty variant of stable_jitter: the offset comes from the state of the
\* process's random generator.
stable_jitter_random(val, key, scale) ==
    [val |-> val, scale |-> scale,
     num |-> <<2 * (8192 * random_state) - 65535, 1>>]
\* dashboard.py lines 54-57: h is the MD5 digest of str(key), r comes from
\* its first eight hexadecimal digits, the result from val, r and scale.
stable_jitter(val, key, scale) ==
    jittered(val, ratio(md5_hexdigest_8(to_str(key))), scale)

\* dashboard.py lines 22-67.
load_dashboard(file) ==
    LET t0 == read_csv(file.rows)
        t1 == [k \in 1..Len(t0) |->
                 [t0[k] EXCEPT !.Prix = to_numeric(@), !.Surface_m2 = to_numeric(@),
                               !.latitude = to_numeric(@), !.longitude = to_numeric(@)]]
        t2 == dropna(t1, {"latitude", "longitude", "Prix"})
        mask_ok(row) ==
            /\ ~row.Surface_m2.isna
            /\ row.Surface_m2.v >= 150
            /\ row.Surface_m2.v <= 10000
            /\ ~row.Prix.isna
        key(row) == IF file.URL_column THEN to_str(row.URL) ELSE str_int(row.index)
        prepared(row) ==
            [prix_m2_safe |-> IF mask_ok(row) THEN prix_par_m2(row, 1) ELSE NaN,
             lat_viz |-> stable_jitter(row.latitude.v, key(row), 4000),
             lon_viz |-> stable_jitter(row.longitude.v, key(row) \o <<"_x">>, 4000)]
            @@ [row EXCEPT !.Departement = zfill(astype_str(@), 2)]
    IN  [k \in 1..Len(t2) |-> prepared(t2[k])]

\* The random generator: a state, from which random() takes its value in
\* [0, 1) as random_state / RandomStates before moving to the next state.
RandomStates == 8
RECURSIVE advance(_, _)
advance(s, draws) ==
    IF draws = 0 THEN s ELSE advance((5 * s + 3) % RandomStates, draws - 1)
\* random.uniform(a, b) = a + (b - a) * random()
uniform(a, b, s) == a + ((b - a) * s) \div RandomStates

\* app.py lines 14-41: get_jitter draws once per row for lat_viz, then once
\* per row for lon_viz.
load_app(file, s) ==
    LET t1 == dropna(read_csv(file.rows), {"latitude", "longitude"})
        n == Len(t1)
        prepared(k) ==
            [lat_viz |-> t1[k].latitude.v + uniform(-5000, 5000, advance(s, k - 1)),
             lon_viz |-> t1[k].longitude.v + uniform(-5000, 5000, advance(s, n + k - 1))]
            @@ [t1[k] EXCEPT !.Departement = zfill(astype_str(@), 2)]
    IN  [k \in 1..n |-> prepared(k)]

\* What seeds the generator when a process starts.
Seeds == {0, 5}

\* A viewer starts: nothing is cached.  app.py reads neither Prix nor
\* Surface_m2.
InitViewer ==
    /\ script \in {"dashboard", "app"}
    /\ pc = "load"
    /\ GEOPY_AVAILABLE = TRUE
    /\ df = <<>>
    /\ df_Ville = <<>>
    /\ NoRun
    /\ Idle
    /\ IdleLocation
    /\ csv \in CsvFiles
    /\ script = "app" =>
          \A k \in 1..Len(csv.rows) :
              csv.rows[k].Prix = Num(300000) /\ csv.rows[k].Surface_m2 = NaN
    /\ random_state \in Seeds
    /\ previous_df = <<>>
    /\ jitter = <<>>
    /\ IdleMain

\* dashboard.py: load_and_prepare_data runs, st.cache_data keeps its result.
LoadDashboard ==
    /\ script = "dashboard"
    /\ pc = "load"
    /\ df' = load_dashboard(csv)
    /\ pc' = "cached"
    /\ UNCHANGED <<script, GEOPY_AVAILABLE, couples_uniques, cache, df_Ville,
                   villes_uniques, cache_coordonnees, i, latitude, longitude,
                   output_written, trace, requests, responses, surfVars, locVars,
                   viewVars, mainVars>>

\* app.py: load_and_prepare_data runs, st.cache_data keeps its result.
LoadApp ==
    /\ script = "app"
    /\ pc = "load"
    /\ df' = load_app(csv, random_state)
    /\ random_state' =
          advance(random_state, 2 * Len(dropna(csv.rows, {"latitude", "longitude"})))
    /\ pc' = "cached"
    /\ UNCHANGED <<script, GEOPY_AVAILABLE, couples_uniques, cache, df_Ville,
                   villes_uniques, cache_coordonnees, i, latitude, longitude,
                   output_written, trace, requests, responses, surfVars, locVars,
                   csv, previous_df, jitter, mainVars>>

\* The cache is cleared: the next rerun calls load_and_prepare_data again.
ClearCache ==
    /\ script \in {"dashboard", "app"}
    /\ pc = "cached"
    /\ previous_df' = df
    /\ pc' = "load"
    /\ UNCHANGED <<script, GEOPY_AVAILABLE, df, couples_uniques, cache, df_Ville,
                   villes_uniques, cache_coordonnees, i, latitude, longitude,
                   output_written, trace, requests, responses, surfVars, locVars,
                   csv, random_state, jitter, mainVars>>

\* The process is restarted: the cache is empty and the generator reseeded.
Restart ==
    /\ script \in {"dashboard", "app"}
    /\ pc = "cached"
    /\ previous_df' = df
    /\ random_state' \in Seeds
    /\ pc' = "load"
    /\ UNCHANGED <<script, GEOPY_AVAILABLE, df, couples_uniques, cache, df_Ville,
                   villes_uniques, cache_coordonnees, i, latitude, longitude,
                   output_written, trace, requests, responses, surfVars, locVars,
                   csv, jitter, mainVars>>

NextViewer ==
    \/ LoadDashboard
    \/ LoadApp
    \/ ClearCache
    \/ Restart

SpecViewer == InitViewer /\ [][NextViewer]_vars

\* ------------------------------------------- dashboard.py: stable_jitter
\* The first eight hexadecimal digits of a key's digest: a key is any
\* string, and MD5 gives it any of the 2^32 prefixes; the extreme digits
\* and the middle ones are drawn.
Digests == [1..8 -> {"0", "7", "8", "f"}]

\* A call of stable_jitter once line 55 has run: val, scale and h[:8].  The
\* scales are 0.004 (the calls of lines 64-65) and the default 0.005, in
\* millionths of a degree.
InitJitter ==
    /\ script = "stable_jitter"
    /\ pc = "r"
    /\ GEOPY_AVAILABLE = TRUE
    /\ df = <<>>
    /\ df_Ville = <<>>
    /\ NoRun
    /\ Idle
    /\ IdleLocation
    /\ csv = <<>>
    /\ random_state = 0
    /\ previous_df = <<>>
    /\ \E h \in Digests, scale \in {4000, 5000} :
          jitter = [val |-> 43804000, scale |-> scale, h |-> h]
    /\ IdleMain

\* Line 56: r = int(h[:8], 16) / 0xFFFFFFFF
Ratio ==
    /\ script = "stable_jitter"
    /\ pc = "r"
    /\ jitter' = DictSet(jitter, "r", ratio(jitter.h))
    /\ pc' = "return val + (r - 0.5) * 2 * scale"
    /\ UNCHANGED <<script, GEOPY_AVAILABLE, df, couples_uniques, cache, df_Ville,
                   villes_uniques, cache_coordonnees, i, latitude, longitude,
                   output_written, trace, requests, responses, surfVars, locVars,
                   csv, random_state, previous_df, mainVars>>

\* Line 57: return val + (r - 0.5) * 2 * scale
ReturnJitter ==
    /\ script = "stable_jitter"
    /\ pc = "return val + (r - 0.5) * 2 * scale"
    /\ jitter' = DictSet(jitter, "returned",
                         jittered(jitter.val, jitter.r, jitter.scale))
    /\ pc' = "return"
    /\ UNCHANGED <<script, GEOPY_AVAILABLE, df, couples_uniques, cache, df_Ville,
                   villes_uniques, cache_coordonnees, i, latitude, longitude,
                   output_written, trace, requests, responses, surfVars, locVars,
                   csv, random_state, previous_df, mainVars>>

NextJitter ==
    \/ Ratio
    \/ ReturnJitter

SpecJitter == InitJitter /\ [][NextJitter]_vars

\* =================================================================
\* Properties of the geocoding runs (checked under Spec)
\* =================================================================
\* The distinct (Ville, Nom_Departement) pairs of the input table.
PairsOf(rows) == {cache_key(rows[r]) : r \in 1..Len(rows)}
Lookups == 1..Len(requests)
Failed(k) == responses[k] \notin Locations
Unresolved == <<None, None>>
CleanRun == script = "clean_data" /\ GEOPY_AVAILABLE

\* C1: in one run of geocoder_villes no pair is looked up twice, so the
\* number of external calls never exceeds the number of distinct pairs of
\* the input table; a pair whose lookup failed or returned nothing is in the
\* cache as unresolved from then on (and, by the first part, not queried
\* again).
C1_OneLookupPerPair ==
    script = "clean_data" =>
        /\ Len(requests) <= Cardinality(PairsOf(df))
        /\ \A a, b \in Lookups : requests[a] = requests[b] => a = b
        /\ \A k \in Lookups : requests[k] \in PairsOf(df)
        /\ \A k \in Lookups :
              Failed(k) => /\ requests[k] \in DOMAIN cache
                           /\ cache[requests[k]] = Unresolved

\* A finished run over more rows than pairs, one of the pairs having failed.
C1_Witness ==
    /\ CleanRun
    /\ pc = "return"
    /\ Len(requests) = 2
    /\ Len(df) > Len(requests)
    /\ \E k \in Lookups : Failed(k)

\* C2: a lookup that raises or returns nothing stores (None, None) for its
\* pair and the loop goes on: whatever the outcomes were, the run is never
\* stuck before its return, and at the return every unique pair has been
\* looked up and has exactly its own cache entry, resolved or unresolved.
C2_FailureDoesNotAbort ==
    CleanRun =>
        /\ pc # "return" => ENABLED NextClean
        /\ \A k \in Lookups :
              Failed(k) => DictGet(cache, requests[k], <<>>) = Unresolved
        /\ pc = "return" =>
              /\ DOMAIN cache = PairsOf(df)
              /\ {requests[k] : k \in Lookups} = PairsOf(df)
              /\ \A k \in Lookups :
                    cache[requests[k]] =
                        IF Failed(k) THEN Unresolved ELSE responses[k]

\* A finished run in which an exception and an empty result both came
\* before a successful lookup.
C2_Witness ==
    /\ CleanRun
    /\ pc = "return"
    /\ \E a, b, c \in Lookups :
          /\ a < c /\ b < c
          /\ responses[a] = Raised
          /\ responses[b] = NotFound
          /\ responses[c] \in Locations

\* C3: in the trace of either geocoding loop every external call is
\* followed by the delay before anything else happens, so no two calls are
\* adjacent, whether the earlier one succeeded, returned nothing or raised.
C3_SleepBetweenLookups ==
    \A k \in 1..(Len(trace) - 1) :
        trace[k] = "geocode" => trace[k + 1] = "sleep"

\* Three lookups in a row: one raised, one found nothing, one succeeded.
C3_Witness ==
    /\ Len(responses) = 3
    /\ responses[1] = Raised
    /\ responses[2] = NotFound
    /\ responses[3] \in Locations
    /\ trace = <<"geocode", "sleep", "geocode", "sleep", "geocode">>

\* C4: after the geocoding stage any two rows with the same
\* (Ville, Nom_Departement) pair have the same latitude and longitude.
C4_SamePairSameCoords ==
    (script = "clean_data" /\ pc = "return") =>
        \A r, q \in 1..Len(df) :
            cache_key(df[r]) = cache_key(df[q]) =>
                /\ latitude[r] = latitude[q]
                /\ longitude[r] = longitude[q]

\* Two rows of one resolved pair next to a row of another pair that was
\* resolved to other coordinates.
C4_Witness ==
    /\ CleanRun
    /\ pc = "return"
    /\ \E r, q, t \in 1..Len(df) :
          /\ r # q
          /\ cache_key(df[r]) = cache_key(df[q])
          /\ latitude[r] # None
          /\ cache_key(df[t]) # cache_key(df[r])
          /\ latitude[t] \notin {None, latitude[r]}

\* C5: when the lookup of a key fails, every row of that key ends with a
\* null latitude and longitude, every row of a resolved key carries the
\* coordinates its lookup returned, and the run reaches its return.
C5_FailedKeyRowsNull ==
    CleanRun =>
        /\ pc \in {"geocoder_villes", "for", "sleep", "return"}
        /\ pc # "return" => ENABLED NextClean
        /\ pc = "return" =>
              \A r \in 1..Len(df) :
                  \E k \in Lookups :
                      /\ requests[k] = cache_key(df[r])
                      /\ <<latitude[r], longitude[r]>> =
                            IF Failed(k) THEN Unresolved ELSE responses[k]

\* A finished run with a failed key and, after it, a resolved one.
C5_Witness ==
    /\ CleanRun
    /\ pc = "return"
    /\ \E r, q \in 1..Len(df) :
          /\ latitude[r] = None /\ longitude[r] = None
          /\ latitude[q] # None /\ longitude[q] # None
          /\ \E a, b \in Lookups :
                /\ a < b
                /\ requests[a] = cache_key(df[r])
                /\ requests[b] = cache_key(df[q])

\* C6: in enrichir_csv_avec_gps a failed or empty lookup never aborts the
\* run: the run ends by its return with the output file written and null
\* coordinates in the rows of the failed city.
C6_LegacyFailureIsolated ==
    (script = "immo_gps" /\ \E k \in Lookups : Failed(k)) =>
        /\ pc # "TypeError"
        /\ pc = "return" =>
              /\ output_written
              /\ \A r \in 1..Len(df_Ville) :
                    \A k \in Lookups :
                        (requests[k] = df_Ville[r] /\ Failed(k)) =>
                            /\ latitude[r] = None
                            /\ longitude[r] = None


\* =================================================================
\* Properties of extraire_surface (checked under SpecSurface)
\* =================================================================
Called == script = "extraire_surface" /\ pc = "return"
Positions == 1..Len(description)
\* The value, in tenths, that a number of the text stands for.
ValueOf(k) ==
    CASE description[k] = "8,5" -> 85
      [] description[k] = "12" -> 120
      [] description[k] = "25" -> 250
\* Position k holds an area-marked number: a number followed by the marker.
AreaNumberAt(k) ==
    /\ k + 1 <= Len(description)
    /\ description[k] \in {"8,5", "12", "25"}
    /\ description[k + 1] = "m2"
\* ... followed by the given qualifier.
QualifiedAt(k, word) ==
    /\ AreaNumberAt(k)
    /\ k + 2 <= Len(description)
    /\ description[k + 2] = word
\* ... introduced by de / d'environ / d'une surface de.
IntroducedAt(k) ==
    /\ AreaNumberAt(k)
    /\ k > 1
    /\ description[k - 1] \in {"de", "d'environ"}
\* k is the first position of the text that satisfies P.
FirstAt(k, P(_)) == P(k) /\ \A j \in 1..(k - 1) : ~P(j)
IsCarrez(k) == QualifiedAt(k, "carrez")
IsHabitable(k) == QualifiedAt(k, "habitable")
NoCarrez == \A k \in Positions : ~IsCarrez(k)
NoHabitable == \A k \in Positions : ~IsHabitable(k)
\* The threshold of the call, in tenths.
Threshold == seuil_min(type_bien) * 10
AreaValues == {ValueOf(k) : k \in {p \in Positions : AreaNumberAt(p)}}
Largest(S) == CHOOSE v \in S : \A w \in S : w <= v

\* C7: when the description holds a Carrez mention (a number, the area
\* marker, the keyword), extraire_surface returns the value of the (first)
\* Carrez mention, for any hint, whatever the other area-marked numbers
\* and whatever the threshold.
C7_CarrezReturned ==
    Called =>
        \A k \in Positions :
            FirstAt(k, IsCarrez) =>
                /\ surface.found
                /\ surface.val = ValueOf(k)
                /\ surface.line = 91

\* A Carrez value below the threshold, after a larger area-marked number.
C7_Witness ==
    /\ Called
    /\ \E k, j \in Positions :
          /\ FirstAt(k, IsCarrez)
          /\ ValueOf(k) < Threshold
          /\ j < k /\ AreaNumberAt(j) /\ ValueOf(j) > ValueOf(k)
          /\ surface.val = ValueOf(k)

\* C8: without a Carrez mention, a number followed by the area marker and
\* habitable(s) is returned (the first such number), without the threshold
\* and whatever larger area-marked or introduced numbers the text holds.
C8_HabitableReturned ==
    (Called /\ NoCarrez) =>
        \A k \in Positions :
            FirstAt(k, IsHabitable) =>
                /\ surface.found
                /\ surface.val = ValueOf(k)
                /\ surface.line = 96

\* A habitable value below the threshold, after a larger introduced number.
C8_Witness ==
    /\ Called
    /\ NoCarrez
    /\ \E k, j \in Positions :
          /\ FirstAt(k, IsHabitable)
          /\ ValueOf(k) < Threshold
          /\ j < k /\ IntroducedAt(j) /\ ValueOf(j) >= Threshold
          /\ surface.val = ValueOf(k)

\* C9: without Carrez and habitable mentions, the (first) number introduced
\* by a phrase and followed by the marker is returned at priority 3 if and
\* only if it reaches the threshold; below the threshold priority 3 returns
\* nothing and the result is the one of priority 4.
C9_FormulationThreshold ==
    (Called /\ NoCarrez /\ NoHabitable) =>
        /\ surface.line = 107 => surface.val >= Threshold
        /\ \A k \in Positions :
              FirstAt(k, IntroducedAt) =>
                  IF ValueOf(k) >= Threshold
                  THEN /\ surface.found
                       /\ surface.val = ValueOf(k)
                       /\ surface.line = 107
                  ELSE /\ surface.found
                       /\ surface.line \in {116, 118}

\* An introduced number below the threshold: priority 4 answered instead,
\* with another number.
C9_Witness ==
    /\ Called
    /\ NoCarrez
    /\ NoHabitable
    /\ \E k \in Positions :
          /\ FirstAt(k, IntroducedAt)
          /\ ValueOf(k) < Threshold
          /\ surface.line = 116
          /\ surface.val # ValueOf(k)

\* C10: when priorities 1 to 3 return nothing and the text holds
\* area-marked numbers, the result is the largest of those that reach the
\* threshold, and the largest of all of them if none does.
C10_LargestAboveThreshold ==
    (/\ Called
     /\ NoCarrez
     /\ NoHabitable
     /\ \A k \in Positions : FirstAt(k, IntroducedAt) => ValueOf(k) < Threshold
     /\ AreaValues # {}) =>
        LET valid == {v \in AreaValues : v >= Threshold}
        IN  /\ surface.found
            /\ surface.val = IF valid # {} THEN Largest(valid) ELSE Largest(AreaValues)
            /\ surface.line = IF valid # {} THEN 116 ELSE 118

\* Two numbers reach the threshold and the larger one is not the first.
C10_Witness ==
    /\ Called
    /\ surface.line = 116
    /\ \E k, j \in Positions :
          /\ k < j
          /\ AreaNumberAt(k) /\ AreaNumberAt(j)
          /\ ValueOf(k) >= Threshold
          /\ ValueOf(j) > ValueOf(k)
          /\ surface.val = ValueOf(j)

\* Position k holds environ (alone or in d'environ) followed by a number.
EnvironAt(k) ==
    /\ k + 1 <= Len(description)
    /\ description[k] \in {"environ", "d'environ"}
    /\ description[k + 1] \in {"8,5", "12", "25"}
\* The whole number N that follows environ, in tenths: its digits up to
\* the decimal separator.
WholeNumberOf(k) ==
    CASE description[k] = "8,5" -> 80
      [] description[k] = "12" -> 120
      [] description[k] = "25" -> 250

\* C11: a number after environ is the result (line 125) only when the text
\* holds no area-marked number, so that priorities 1 to 4 returned nothing,
\* and only if it reaches the threshold; without any area-marked number
\* the result is the whole number after the first environ if it reaches
\* the threshold, and None (line 127) if there is no environ or that
\* number is below the threshold.
C11_EnvironLastResort ==
    Called =>
        /\ surface.line = 125 =>
              /\ AreaValues = {}
              /\ surface.val >= Threshold
        /\ AreaValues = {} =>
              IF \E k \in Positions :
                     FirstAt(k, EnvironAt) /\ WholeNumberOf(k + 1) >= Threshold
              THEN /\ surface.found
                   /\ surface.line = 125
                   /\ \A k \in Positions :
                         FirstAt(k, EnvironAt) => surface.val = WholeNumberOf(k + 1)
              ELSE /\ ~surface.found
                   /\ surface.line = 127

\* The only match is environ N with N below the threshold: None.
C11_Witness ==
    /\ Called
    /\ AreaValues = {}
    /\ \E k \in Positions :
          FirstAt(k, EnvironAt) /\ WholeNumberOf(k + 1) < Threshold
    /\ ~surface.found

\* The hint names the studio / one-room category: its type code is T0 or
\* T1 (clean_data.py line 82: "Les studios (T0, T1)"), the digit not being
\* followed by another digit.
StudioCategory ==
    /\ type_bien # NoneHint
    /\ \E k \in 1..Len(type_bien) :
          /\ k + 1 <= Len(type_bien)
          /\ type_bien[k] = "T"
          /\ type_bien[k + 1] \in {"0", "1"}
          /\ (k + 2 <= Len(type_bien) =>
                 type_bien[k + 2] \notin {"0", "1", "2", "3", "4", "5", "6", "7", "8", "9"})
\* The threshold the hint calls for, in tenths.
CategoryThreshold == IF StudioCategory THEN 120 ELSE 250

\* C12: the threshold is 12 when the hint names the studio / one-room
\* category and 25 otherwise (the hint missing included): without Carrez
\* and habitable mentions, the first number introduced by a phrase is
\* returned at priority 3 exactly when it reaches that threshold, so that
\* a studio's introduced value between 12 and 25 is the result.
C12_ThresholdByCategory ==
    (Called /\ NoCarrez /\ NoHabitable) =>
        \A k \in Positions :
            FirstAt(k, IntroducedAt) =>
                (surface.line = 107 /\ surface.val = ValueOf(k))
                    <=> ValueOf(k) >= CategoryThreshold

\* =================================================================
\* Properties of the location parser (checked under SpecLocation)
\* =================================================================
Parsed == script = "localisation" /\ pc = "return"
\* The text of the raw value.
RawText == IF Localisation = nan THEN <<"nan">> ELSE Localisation
\* x without its leading atoms of lead and its trailing atoms of trail.
Trimmed(x, lead, trail) ==
    LET ok(a, b) ==
            /\ a <= b
            /\ \A j \in 1..a : x[j] \in lead
            /\ \A j \in (b + 1)..Len(x) : x[j] \in trail
            /\ a < b => (x[a + 1] \notin lead /\ x[b] \notin trail)
        ab == CHOOSE p \in (0..Len(x)) \X (0..Len(x)) : ok(p[1], p[2])
    IN  SubSeq(x, ab[1] + 1, ab[2])
Trim(x) == Trimmed(x, {" "}, {" "})
\* The cleaned string: no leading dash or whitespace, no trailing whitespace.
Cleaned == Trimmed(RawText, {"-", " "}, {" "})
\* ' - ' starts at position k of c.
SeparatorAt(c, k) ==
    /\ k >= 1
    /\ k + 2 <= Len(c)
    /\ c[k] = " " /\ c[k + 1] = "-" /\ c[k + 2] = " "
FirstSeparator(c, k) == SeparatorAt(c, k) /\ \A j \in 1..(k - 1) : ~SeparatorAt(c, j)
\* The segment that starts at position a of c: up to the next separator.
SegmentFrom(c, a) ==
    LET next == {m \in a..Len(c) : SeparatorAt(c, m)}
    IN  IF next = {} THEN SubSeq(c, a, Len(c))
        ELSE SubSeq(c, a, (CHOOSE m \in next : \A j \in next : m <= j) - 1)
\* x without its code suffix: what precedes the opening parenthesis.
WithoutCode(x) ==
    LET open == {k \in 1..Len(x) : x[k] = "("}
    IN  IF open = {} THEN x
        ELSE SubSeq(x, 1, (CHOOSE k \in open : \A j \in open : k <= j) - 1)
SeveralSeparators(c, k) == \E m \in (k + 3)..Len(c) : SeparatorAt(c, m)

\* C13: for every raw location, with c the string without its leading
\* dashes and whitespace: if c holds ' - ', the city is the segment before
\* the first one and the division name is the segment after it (up to the
\* next separator, if any) without its parenthesized code, both without
\* outer whitespace; otherwise the city is c and the division name is
\* empty.  Both functions return for every value (no row fails).
C13_LocationParsed ==
    Parsed =>
        LET c == Cleaned
        IN  IF \E k \in 1..Len(c) : SeparatorAt(c, k)
            THEN \A k \in 1..Len(c) :
                    FirstSeparator(c, k) =>
                        /\ Ville = Trim(SubSeq(c, 1, k - 1))
                        /\ Nom_Departement = Trim(WithoutCode(SegmentFrom(c, k + 3)))
            ELSE /\ Ville = c
                 /\ Nom_Departement = <<>>

\* "- Tarascon - Bouches-du-Rhone (13)" gives Tarascon / Bouches-du-Rhone.
C13_Witness ==
    /\ Parsed
    /\ Localisation = <<"-", " ", "Tarascon", " ", "-", " ", "Bouches", "-", "du",
                        "-", "Rhone", " ", "(", "1", "3", ")">>
    /\ Ville = <<"Tarascon">>
    /\ Nom_Departement = <<"Bouches", "-", "du", "-", "Rhone">>

\* C14: when the cleaned string holds more than one ' - ', only the first
\* split is used: the city is the segment before the first separator and
\* the division name is all that follows the first separator (without its
\* parenthesized code), later separators included.
C14_OnlyFirstSplit ==
    Parsed =>
        LET c == Cleaned
        IN  \A k \in 1..Len(c) :
                (FirstSeparator(c, k) /\ SeveralSeparators(c, k)) =>
                    /\ Ville = Trim(SubSeq(c, 1, k - 1))
                    /\ Nom_Departement = Trim(WithoutCode(SubSeq(c, k + 3, Len(c))))

\* =================================================================
\* Properties of the query builder (checked under SpecQuery)
\* =================================================================
Built == script = "construire_query_geocodage" /\ pc = "return"
\* The spellings of the major cities, whatever the case, and their bases.
MajorCities == {"paris", "lyon", "marseille"}
Spellings(name) ==
    CASE name = "paris" -> {"paris", "Paris", "PARIS"}
      [] name = "lyon" -> {"lyon", "Lyon", "LYON"}
      [] name = "marseille" -> {"marseille", "Marseille", "MARSEILLE"}
Base(name) ==
    CASE name = "paris" -> 75000
      [] name = "lyon" -> 69000
      [] name = "marseille" -> 13000
\* The number that a sequence of digits stands for, leading zeros or not.
RECURSIVE NumberOf(_)
NumberOf(digits) ==
    IF digits = <<>> THEN 0
    ELSE 10 * NumberOf(SubSeq(digits, 1, Len(digits) - 1))
             + DigitValue(digits[Len(digits)])
\* The city is the major city name followed by the arrondissement number n:
\* the name, whitespace or none, then digits only.
ArrondissementOf(city, name, n) ==
    LET c == Trim(city)
    IN  /\ Len(c) >= 2
        /\ c[1] \in Spellings(name)
        /\ \E d \in 2..Len(c) :
              /\ \A j \in 2..(d - 1) : c[j] = " "
              /\ \A j \in d..Len(c) : c[j] \in Digits
              /\ n = NumberOf(SubSeq(c, d, Len(c)))
MajorCityWithNumber(city) ==
    \E name \in MajorCities : \E n \in 0..99 : ArrondissementOf(city, name, n)
France == <<",", " ", "France">>
\* q is '<cp>, France' for a number cp.
PostalQuery(q, cp) ==
    /\ Len(q) = 8
    /\ \A j \in 1..5 : q[j] \in Digits
    /\ q[1] # "0"
    /\ NumberOf(SubSeq(q, 1, 5)) = cp
    /\ SubSeq(q, 6, 8) = France
DefaultQuery(city, division) ==
    IF division # <<>> THEN city \o <<",", " ">> \o division \o France
    ELSE city \o France

\* C15: the query is the postal code '<base + n>, France' exactly when
\* the city is Paris, Lyon or Marseille followed by an arrondissement
\* number n, whatever the division name, the case of the name and the
\* leading zeros of n; for no other city is the query a postal code.
C15_PostalCodeForArrondissements ==
    Built =>
        /\ \A name \in MajorCities : \A n \in 0..99 :
              ArrondissementOf(Ville, name, n) => PostalQuery(query, Base(name) + n)
        /\ ~MajorCityWithNumber(Ville) =>
              \A cp \in 13000..75099 : ~PostalQuery(query, cp)

\* C16: for a city that is not a major city with an arrondissement number
\* the query is 'city, division_name, France', or 'city, France' when the
\* division name is empty, so that it differs from the query of the same
\* city name in any other division.
C16_DefaultQuery ==
    (Built /\ ~MajorCityWithNumber(Ville)) =>
        /\ query = DefaultQuery(Ville, Nom_Departement)
        /\ \A d \in QueryDepartements \ {Nom_Departement} :
              query # DefaultQuery(Ville, d)

\* =================================================================
\* Properties of the tables (checked under SpecNettoyer and SpecViewer)
\* =================================================================
\* nettoyer_donnees has returned df; the dashboard has loaded df.
Nettoye == script = "nettoyer_donnees" /\ pc = "return"
DashboardLoaded == script = "dashboard" /\ pc = "cached"
\* The surface is present and within the window [15, 1000] m2 (in tenths).
InWindow(row) ==
    /\ ~row.Surface_m2.isna
    /\ row.Surface_m2.v >= 150
    /\ row.Surface_m2.v <= 10000
\* cell is the price per area of the row in units of 1/unit euro, rounded,
\* when the surface is within the window and the price is present, and is
\* null otherwise.
PricePerAreaIs(row, cell, unit) ==
    IF InWindow(row) /\ ~row.Prix.isna
    THEN LET diff == cell.v * row.Surface_m2.v - row.Prix.v * 10 * unit
         IN  /\ ~cell.isna
             /\ 2 * diff <= row.Surface_m2.v
             /\ 2 * diff >= 0 - row.Surface_m2.v
    ELSE cell.isna

\* C17: the price per area is null for every row whose surface is outside
\* [15, 1000] m2, and is price / surface only for a surface within it,
\* both in the column prix_m2 that nettoyer_donnees produces and in the
\* column prix_m2_safe that the dashboard produces at load.
C17_PricePerAreaWindow ==
    /\ Nettoye =>
          \A k \in 1..Len(df) : PricePerAreaIs(df[k], df[k].prix_m2, 100)
    /\ DashboardLoaded =>
          \A k \in 1..Len(df) : PricePerAreaIs(df[k], df[k].prix_m2_safe, 1)

\* C18: every row of the table that nettoyer_donnees returns has a price
\* and a surface that are not null.
C18_RetainedRowsComplete ==
    Nettoye =>
        \A k \in 1..Len(df) :
            /\ ~df[k].Prix.isna
            /\ ~df[k].Surface_m2.isna

\* The key that identifies a row of a loaded table: its URL, or its index
\* when the file has no URL column.
IdentityOf(row) == IF csv.URL_column THEN <<"URL">> \o row.URL ELSE <<"index", row.index>>
\* The rows of a table, as a set.
RowsIn(t) == {t[k] : k \in 1..Len(t)}
\* Rows with the same identity and coordinate have the same display
\* coordinate.
SameDisplay(a, b) ==
    IdentityOf(a) = IdentityOf(b) =>
        /\ a.latitude = b.latitude => a.lat_viz = b.lat_viz
        /\ a.longitude = b.longitude => a.lon_viz = b.lon_viz

\* C19: the dashboard's stable_jitter gives a key and a coordinate the same
\* display coordinate at every invocation: the rows that a load returns
\* have the display coordinates that the load before the cache was cleared
\* or the process restarted gave to the same key and coordinate.
C19_StableJitterRepeats ==
    DashboardLoaded =>
        \A a \in RowsIn(df) : \A b \in RowsIn(df) \cup RowsIn(previous_df) :
            SameDisplay(a, b)

\* A load after another one: the same rows with the same display
\* coordinates, of the jitter's scale.
C19_Witness ==
    /\ DashboardLoaded
    /\ previous_df # <<>>
    /\ df = previous_df
    /\ \E a \in RowsIn(df) : a.lat_viz.scale = 4000 /\ a.lat_viz.num # a.lon_viz.num

\* C20: whichever viewer loads the file (dashboard.py or app.py), lat_viz
\* and lon_viz are a function of the coordinate and of the row's identity
\* alone: a load after the cache was cleared gives the display coordinates
\* of the load before.
C20_EveryLoaderDeterministic ==
    (script \in {"dashboard", "app"} /\ pc = "cached") =>
        \A a \in RowsIn(df) : \A b \in RowsIn(previous_df) : SameDisplay(a, b)

\* =================================================================
\* Properties of stable_jitter (checked under SpecJitter)
\* =================================================================
\* a < b and a <= b for numbers held as <<high, low>> with 0 <= low < 65536.
Less(a, b) == a[1] < b[1] \/ (a[1] = b[1] /\ a[2] < b[2])
AtMost(a, b) == a = b \/ Less(a, b)

\* r has been computed; the call has returned.
HasRatio == script = "stable_jitter" /\ pc # "r"
HasReturned == script = "stable_jitter" /\ pc = "return"

\* 0 <= r and r < 1.
RatioNotNegative == jitter.r.num[1] >= 0
RatioBelowOne == Less(jitter.r.num, jitter.r.den)

\* -0xFFFFFFFF as <<high, low>>: -65536 * 65536 + 1.
MinusxFFFFFFFF == <<-65536, 1>>
\* The offset scale * num / 0xFFFFFFFF lies in [-scale, +scale], and the
\* call returns the coordinate it was given plus that offset.
OffsetWithinScale ==
    /\ jitter.returned.val = jitter.val
    /\ jitter.returned.scale = jitter.scale
    /\ AtMost(MinusxFFFFFFFF, jitter.returned.num)
    /\ AtMost(jitter.returned.num, xFFFFFFFF)

\* C21: for every key, stable_jitter derives from the key's hash a value r
\* with 0 <= r < 1 (strictly below 1, over every possible 32-bit hash
\* prefix) and returns the true coordinate plus an offset lying in
\* [-scale, +scale].
C21_RatioInUnitIntervalOffsetWithinScale ==
    /\ HasRatio => RatioNotNegative /\ RatioBelowOne
    /\ HasReturned => OffsetWithinScale

\* What the code does hold to: 0 <= r <= 1, the offset in [-scale, +scale].
JitterWithinClosedBounds ==
    /\ HasRatio => RatioNotNegative /\ AtMost(jitter.r.num, jitter.r.den)
    /\ HasReturned => OffsetWithinScale
\* The one prefix at which r is 1: ffffffff.
RatioOneOnlyAtTopPrefix ==
    HasRatio => (RatioBelowOne <=> jitter.h # [k \in 1..8 |-> "f"])

\* =================================================================
\* Properties of the Departement column (checked under SpecViewer)
\* =================================================================
\* A viewer has loaded its table, the one that its filters then read.
ViewerLoaded == script \in {"dashboard", "app"} /\ pc = "cached"
\* The code that the file holds for the k-th row of the loaded table.
RawCode(k) == csv.rows[df[k].index + 1].Departement
\* Lines 51 (dashboard.py) and 27-28 (app.py) applied to a column of
\* strings, which astype(str) leaves as they are.
Normalised(code) == zfill(code, 2)

\* C22: every division code of the table handed to filtering is a string of
\* width at least 2, the file's code with leading zeros added (6 becomes
\* "06"); a code already two characters wide is unchanged; normalising a
\* second time changes nothing.
C22_DepartementZeroPadded ==
    ViewerLoaded =>
        \A k \in 1..Len(df) :
            LET code == df[k].Departement
                raw == RawCode(k)
            IN  /\ Len(code) >= 2
                /\ \A j \in 1..Len(code) : code[j] \in Digits
                /\ int(code) = int(raw)
                /\ int(raw) < 10 => code = <<"0">> \o str_int(int(raw))
                /\ Len(raw) = 2 => code = raw
                /\ Normalised(code) = code
\* A loaded table with a one-digit code and a two-digit code.
C22_Witness ==
    /\ ViewerLoaded
    /\ \E k \in 1..Len(df) : int(RawCode(k)) = 6 /\ df[k].Departement = <<"0", "6">>
    /\ \E k \in 1..Len(df) : int(RawCode(k)) = 13 /\ df[k].Departement = <<"1", "3">>

\* =================================================================
\* Properties of the runs from their start (checked under SpecMain)
\* =================================================================
\* A script that reads an input file was started and the file is not there.
InputMissing == script \in {"clean_data", "immo_gps"} /\ ~INPUT_FILE.exists
\* The run is at its first statement; the run is over.
AtStart == pc = (IF script = "clean_data" THEN "main" ELSE "read_csv")
Stopped == ~ENABLED NextMain
\* The one line printed is the error that names the missing file.
ErrorReported ==
    stdout = << <<IF script = "clean_data" THEN "Erreur : Fichier non trouve"
                  ELSE "Erreur : Le fichier n'a pas ete trouve.">> >>
\* No table was loaded or cleaned, no lookup was sent, no file was written.
NothingDone ==
    /\ df = <<>>
    /\ initial_count = 0
    /\ mask_missing = <<>>
    /\ couples_uniques = <<>>
    /\ villes_uniques = <<>>
    /\ requests = <<>>
    /\ trace = <<>>
    /\ latitude = <<>>
    /\ longitude = <<>>
    /\ ~output_written

\* C23: when the input file is missing, the run stops with an error reported
\* to the operator before any cleaning, any external geocoding call and
\* any write: no output file, not even a partial one, is written.
C23_MissingInputStopsRun ==
    InputMissing =>
        /\ NothingDone
        /\ \/ AtStart /\ stdout = <<>>
           \/ Stopped /\ ErrorReported
\* clean_data.py was started without its input file and has stopped.
C23_Witness ==
    /\ script = "clean_data"
    /\ ~INPUT_FILE.exists
    /\ pc = "exit"
    /\ ErrorReported
    /\ ~output_written

\* =================================================================
\* Properties of nettoyer_donnees's first two steps (checked under
\* SpecNettoyer)
\* =================================================================
\* The extraction step of a call of nettoyer_donnees has run.
Extracted == script = "nettoyer_donnees" /\ pc # "extraction"
\* The row of the raw input that a row of df comes from.
RawRow(row) == INPUT_FILE.rows[row.index + 1]
SurfacePresent(row) == ~row.Surface_m2.isna

\* C24: a surface present in the raw input is authoritative:
\* extraire_surface is applied only to the records whose Surface_m2 is
\* missing, and every record whose Surface_m2 was present keeps exactly
\* that value, whatever its description contains.
C24_PresentSurfaceKept ==
    Extracted =>
        /\ \A j \in 1..Len(INPUT_FILE.rows) :
              /\ mask_missing[j] <=> ~SurfacePresent(INPUT_FILE.rows[j])
              /\ SurfacePresent(INPUT_FILE.rows[j]) =>
                    \E k \in 1..Len(df) : df[k].index = j - 1
        /\ \A k \in 1..Len(df) :
              SurfacePresent(RawRow(df[k])) =>
                  df[k].Surface_m2 = RawRow(df[k]).Surface_m2
\* A record with the surface 10 m2 and the description "25 m2" has kept its
\* 10 m2 to the end of the call.
C24_Witness ==
    /\ script = "nettoyer_donnees"
    /\ pc = "return"
    /\ \E k \in 1..Len(df) :
          /\ RawRow(df[k]).Surface_m2 = Num(100)
          /\ RawRow(df[k]).Description = <<"25", "m2">>
          /\ df[k].Surface_m2 = Num(100)

\* The step that drops the rows without a surface is taken.
Suppression == script = "nettoyer_donnees" /\ pc = "dropna" /\ pc' = "colonnes"
\* C25: nettoyer_donnees drops exactly the records whose surface is still
\* missing after the extraction step, and no other record; the dropped
\* count that it reports is the input row count minus the retained row
\* count; the retained records keep their relative order.
C25_DropsExactlyStillMissing ==
    [][Suppression =>
        /\ \A k \in 1..Len(df) :
              (\E j \in 1..Len(df') : df'[j] = df[k]) <=> SurfacePresent(df[k])
        /\ \A j \in 1..Len(df') : \E k \in 1..Len(df) : df[k] = df'[j]
        /\ \A j1, j2 \in 1..Len(df') : j1 < j2 => df'[j1].index < df'[j2].index
        /\ stdout' = stdout \o << <<"Lignes supprimees", initial_count - Len(df')>>,
                                  <<"Lignes restantes", Len(df')>> >>
        /\ initial_count = Len(INPUT_FILE.rows)]_vars
\* Of two records, the first was dropped and the second retained.
C25_Witness ==
    /\ script = "nettoyer_donnees"
    /\ pc = "colonnes"
    /\ initial_count = 2
    /\ Len(df) = 1
    /\ df[1].index = 1
    /\ stdout = << <<"Lignes supprimees", 1>>, <<"Lignes restantes", 1>> >>

\* =================================================================
\* A property of extraire_surface as a whole (checked under SpecSurface)
\* =================================================================
\* C26: whenever the description holds at least one area-marked number (a
\* number followed by the marker), extraire_surface returns a value, for
\* any property-type hint, and the value is one of the area-marked numbers
\* of the description: the threshold changes which number is chosen, never
\* whether one is returned.
C26_AreaNumberAlwaysFound ==
    (Called /\ AreaValues # {}) =>
        /\ surface.found
        /\ surface.val \in AreaValues
\* Every area-marked number of the description is under the threshold, and
\* one of them was returned.
C26_Witness ==
    /\ Called
    /\ AreaValues # {}
    /\ \A v \in AreaValues : v < Threshold
    /\ surface.found
    /\ surface.val \in AreaValues

====
